---- MODULE Spec2Model ----
(***************************************************************************)
(* Blogicum request handlers (blog/views.py, blog/forms.py) as a state     *)
(* machine.  The store holds posts, comments, categories and accounts;     *)
(* every handler is one atomic action that reads the request (viewer,      *)
(* method, URL arguments, submitted data), changes the store and leaves    *)
(* its answer in resp.                                                      *)
(***************************************************************************)
EXTENDS Integers, Sequences, FiniteSets, TLC

VARIABLES posts, comments, nextPost, nextComment, categories, now,
          password, session, first_name,
          pgCount, pgParam, pgPage,
          resp

vars == <<posts, comments, nextPost, nextComment, categories, now,
          password, session, first_name, pgCount, pgParam, pgPage, resp>>

blogVars == <<posts, comments, nextPost, nextComment, categories, now>>
accountVars == <<password, session, first_name>>
pageVars == <<pgCount, pgParam, pgPage>>

----------------------------------------------------------------------------
(* Bounds of the model *)

MaxPosts == 2
MaxComments == 1
MaxTime == 1
MaxCount == 21

(* Program constant *)
LIMIT_POSTS == 10

----------------------------------------------------------------------------
(* Value sets *)

Anon == 0
Users == {1, 2}
Viewers == Users \cup {Anon}
Methods == {"GET", "POST"}
Cats == {1, 2}
Slugs == {1, 2, 3}
PostIds == 1..MaxPosts
CommentIds == 1..MaxComments
PubDates == {0, 1}

(* Text is a sequence of one-character strings. *)
Digits == <<"0", "1", "2", "3", "4", "5", "6", "7", "8", "9">>
IsDigit(c) == \E i \in 1..10 : Digits[i] = c
DigitVal(c) == (CHOOSE i \in 1..10 : Digits[i] = c) - 1

RECURSIVE DigitsVal(_)
DigitsVal(s) ==
    IF s = <<>> THEN 0
    ELSE 10 * DigitsVal(SubSeq(s, 1, Len(s) - 1)) + DigitVal(s[Len(s)])

AllDigits(s) == Len(s) > 0 /\ \A i \in 1..Len(s) : IsDigit(s[i])

(* What the query parameter 'page' can hold; absent is [present |-> FALSE]. *)
Absent == [present |-> FALSE, text |-> <<>>]
Given(s) == [present |-> TRUE, text |-> s]
ListingParams == { Absent, Given(<<"2">>) }

PageParams ==
    {Absent} \cup
    { Given(s) : s \in { <<"a">>, <<"2", ".", "5">>, <<"-", "1">>, <<"0">>,
                         <<"1">>, <<"2">>, <<"3">>, <<"9">> } }

(* Raw text of a submitted field. *)
CommentTexts == { <<" ">>, <<"x">>, <<"y", " ">> }
Passwords == { <<>>, <<" ">>, <<"a">>, <<"b">>, <<"b", " ">> }
Names == { <<"n">>, <<"m">> }

NoPage == [number |-> 0, object_list |-> <<>>]
NoForm == [bound |-> FALSE, author |-> 0, text |-> <<>>,
           password1 |-> <<>>, password2 |-> <<>>]
NoLocation == [name |-> "", arg |-> 0]

----------------------------------------------------------------------------
(* django.forms.CharField: strip, then required *)

RECURSIVE LStrip(_)
LStrip(s) == IF s # <<>> /\ s[1] = " " THEN LStrip(Tail(s)) ELSE s

RECURSIVE RStrip(_)
RStrip(s) ==
    IF s # <<>> /\ s[Len(s)] = " " THEN RStrip(SubSeq(s, 1, Len(s) - 1)) ELSE s

Strip(s) == RStrip(LStrip(s))

(* CharField.clean(): the cleaned value, <<>> being an empty value *)
CharField(raw) == Strip(raw)

----------------------------------------------------------------------------
(* django.core.paginator.Paginator, as used by the listing handlers *)

(* int(number): an optional sign and digits, anything else is not an integer *)
IsInteger(s) ==
    \/ AllDigits(s)
    \/ Len(s) > 1 /\ s[1] = "-" /\ AllDigits(Tail(s))

IntValue(s) ==
    IF s[1] = "-" THEN 0 - DigitsVal(Tail(s)) ELSE DigitsVal(s)

Min(a, b) == IF a < b THEN a ELSE b

(* Paginator.num_pages: allow_empty_first_page, no orphans *)
num_pages(count) ==
    IF count = 0 THEN 1 ELSE (count + LIMIT_POSTS - 1) \div LIMIT_POSTS

(* Paginator.page(number): the slice [bottom:top] of the object list *)
page(object_list, number) ==
    LET bottom == (number - 1) * LIMIT_POSTS
        top == Min(bottom + LIMIT_POSTS, Len(object_list))
    IN [number |-> number, object_list |-> SubSeq(object_list, bottom + 1, top)]

(* Variant of get_page: a number above the last page is not clamped *)
get_page_unclamped(object_list, param) ==
    LET last == num_pages(Len(object_list))
    IN IF ~param.present \/ ~IsInteger(param.text) THEN page(object_list, 1)
       ELSE IF IntValue(param.text) < 1 THEN page(object_list, last)
       ELSE page(object_list, IntValue(param.text))

(* Paginator.get_page(number): PageNotAnInteger gives page 1, EmptyPage (a
   number below 1 or above num_pages) gives the last page *)
get_page(object_list, param) ==
    LET last == num_pages(Len(object_list))
    IN IF ~param.present \/ ~IsInteger(param.text) THEN page(object_list, 1)
       ELSE IF IntValue(param.text) < 1 THEN page(object_list, last)
       ELSE IF IntValue(param.text) > last THEN page(object_list, last)
       ELSE page(object_list, IntValue(param.text))

----------------------------------------------------------------------------
(* Requests and responses *)

(* request.user.is_authenticated *)
is_authenticated(v) == v # Anon

(* request.user.username; AnonymousUser.username is the empty string (0) *)
username(v) == v

Location(n, a) == [name |-> n, arg |-> a]

Request(h, v, m) ==
    [handler |-> h, viewer |-> v, client |-> v, method |-> m,
     post_id |-> 0, comment_id |-> 0, name |-> 0,
     status |-> 0, location |-> NoLocation, template |-> "",
     page |-> NoPage, comments |-> {}, form |-> NoForm, is_valid |-> FALSE]

(* @login_required / LoginRequiredMixin.handle_no_permission *)
redirect_to_login(req) == [req EXCEPT !.status = 302, !.location = Location("login", 0)]

render(req, tpl) == [req EXCEPT !.status = 200, !.template = tpl]
redirect(req, n, a) == [req EXCEPT !.status = 302, !.location = Location(n, a)]
Http404(req) == [req EXCEPT !.status = 404]
HttpResponseForbidden(req) == [req EXCEPT !.status = 403]

----------------------------------------------------------------------------
(* The store *)

Post(a, c, p, d) == [author |-> a, category |-> c, is_published |-> p, pub_date |-> d]
Comment(a, p, t) == [author |-> a, post |-> p, text |-> t]

Restrict(f, S) == [x \in S |-> f[x]]

(* post.comments: the comments whose post is p *)
comments_of(p) == { c \in DOMAIN comments : comments[c].post = p }

(* Variant of published_filter: the pub_date condition is missing *)
published_filter_without_date(S) ==
    { p \in S : posts[p].is_published /\ categories[posts[p].category] }

(* filter(is_published=True, category__is_published=True, pub_date__lte=now) *)
published_filter(S) ==
    { p \in S : /\ posts[p].is_published
                /\ categories[posts[p].category]
                /\ posts[p].pub_date <= now }

(* order_by('-pub_date'): every order of S with pub_date not increasing; the
   order of posts with equal pub_date is the database's choice *)
order_by_pub_date(S) ==
    { s \in [1..Cardinality(S) -> S] :
        /\ \A i, j \in 1..Cardinality(S) : i # j => s[i] # s[j]
        /\ \A i, j \in 1..Cardinality(S) : i < j => posts[s[i]].pub_date >= posts[s[j]].pub_date }

(* ModelForm validation of PostForm: every field but author; the category is
   a choice among the stored categories, pub_date is required *)
PostFields(c, p, d) == [category |-> c, is_published |-> p, pub_date |-> d]

(* Submissions: a post that is public at once, one dated in the future, one
   in the unpublished category, one not published, one without a category;
   each naming no author, user 1 or an unknown user as its author *)
PostData ==
    { [bound |-> TRUE, author |-> a] @@ f :
        a \in {0, 1, 3},
        f \in { PostFields(1, TRUE, 0), PostFields(1, TRUE, 1), PostFields(2, TRUE, 0),
                PostFields(1, FALSE, 0), PostFields(0, TRUE, 0) } }

NoPostData == [bound |-> FALSE, author |-> 0] @@ PostFields(0, FALSE, 0)

(* request.POST of a request with method m *)
PostDataOf(m) == IF m = "POST" THEN PostData ELSE {NoPostData}

(* request.POST of a request to the update page: the submissions that name
   user 1 as the author *)
UpdateDataOf(m) == { data \in PostDataOf(m) : data.bound => data.author = 1 }

(* What resp keeps of a submitted post: the author it names *)
Submitted(data) == [NoForm EXCEPT !.bound = data.bound, !.author = data.author]

PostForm_is_valid(data) == data.bound /\ data.category \in Cats

(* Variant of PostForm_save: author is a field of the form *)
PostForm_save_with_author(instance, data) ==
    [instance EXCEPT !.category = data.category,
                     !.is_published = data.is_published,
                     !.pub_date = data.pub_date,
                     !.author = IF data.author \in Users THEN data.author ELSE @]

(* PostForm.save(): the model fields the form carries; author is excluded *)
PostForm_save(instance, data) ==
    [instance EXCEPT !.category = data.category,
                     !.is_published = data.is_published,
                     !.pub_date = data.pub_date]

(* Variant of form_valid: an author named in the submitted data is kept *)
form_valid_keeps_submitted_author(user, data) ==
    [PostForm_save(Post(0, 0, FALSE, 0), data)
       EXCEPT !.author = IF data.author \in Users THEN data.author ELSE user]

(* PostCreateView.form_valid: the instance built from the form gets
   author = request.user, then it is saved *)
form_valid(user, data) ==
    [PostForm_save(Post(0, 0, FALSE, 0), data) EXCEPT !.author = user]

(* CommentForm: fields = ['text'] *)
CommentData ==
    { [NoForm EXCEPT !.bound = TRUE, !.text = t] : t \in CommentTexts }

CommentDataOf(m) == IF m = "POST" THEN CommentData ELSE {NoForm}

CommentForm_is_valid(data) == data.bound /\ CharField(data.text) # <<>>

CommentForm_save(instance, data) == [instance EXCEPT !.text = CharField(data.text)]

(* Variant of new_comment: the comment is attributed to the post's author *)
new_comment_by_post_author(user, post_id, data) ==
    [CommentForm_save(Comment(0, 0, <<>>), data)
       EXCEPT !.author = posts[post_id].author, !.post = post_id]

(* add_comment: form.save(commit=False), then author and post are set *)
new_comment(user, post_id, data) ==
    [CommentForm_save(Comment(0, 0, <<>>), data) EXCEPT !.author = user, !.post = post_id]

----------------------------------------------------------------------------
(* Listing handlers *)

(* index(request) *)
index ==
    \E v \in Viewers, param \in ListingParams :
      \E object_list \in order_by_pub_date(published_filter(DOMAIN posts)) :
        /\ resp' = [render(Request("index", v, "GET"), "blog/index.html")
                      EXCEPT !.page = get_page(object_list, param)]
        /\ UNCHANGED <<blogVars, accountVars, pageVars>>

(* category_posts(request, category_slug) *)
category_posts ==
    \E v \in Viewers, slug \in Slugs, param \in ListingParams :
      LET req == [Request("category_posts", v, "GET") EXCEPT !.name = slug]
      IN /\ IF slug \notin Cats \/ ~categories[slug]
            THEN resp' = Http404(req)
            ELSE \E object_list \in order_by_pub_date(
                        { p \in DOMAIN posts : /\ posts[p].category = slug
                                               /\ posts[p].is_published
                                               /\ posts[p].pub_date <= now }) :
                   resp' = [render(req, "blog/category.html")
                              EXCEPT !.page = get_page(object_list, param)]
         /\ UNCHANGED <<blogVars, accountVars, pageVars>>

(* profile_view(request, username) *)
profile_view ==
    \E v \in Viewers, name \in Users \cup {3}, param \in ListingParams :
      LET req == [Request("profile_view", v, "GET") EXCEPT !.name = name]
          all == { p \in DOMAIN posts : posts[p].author = name }
          shown == IF username(v) # name THEN published_filter(all) ELSE all
      IN /\ IF name \notin Users
            THEN resp' = Http404(req)
            ELSE \E object_list \in order_by_pub_date(shown) :
                   resp' = [render(req, "blog/profile.html")
                              EXCEPT !.page = get_page(object_list, param)]
         /\ UNCHANGED <<blogVars, accountVars, pageVars>>

----------------------------------------------------------------------------
(* Post detail *)

(* PostDetailView.get_object: TRUE when Http404 is raised for an existing post *)
detail_hidden(v, p) ==
    v # posts[p].author /\ (~posts[p].is_published \/ ~categories[posts[p].category])

(* PostDetailView *)
PostDetailView ==
    \E v \in Viewers, post_id \in PostIds :
      LET req == [Request("post_detail", v, "GET") EXCEPT !.post_id = post_id]
      IN /\ IF post_id \notin DOMAIN posts THEN resp' = Http404(req)
            ELSE IF detail_hidden(v, post_id) THEN resp' = Http404(req)
            ELSE resp' = [render(req, "blog/detail.html")
                            EXCEPT !.comments = comments_of(post_id)]
         /\ UNCHANGED <<blogVars, accountVars, pageVars>>

----------------------------------------------------------------------------
(* Post create / update / delete *)

(* Variant of not_author: the author check of dispatch() is missing *)
anyone_may_edit(v, post_id) == FALSE

(* PostUpdateView.dispatch: self.get_object().author != request.user *)
not_author(v, post_id) == posts[post_id].author # v

(* Variant of owned_post: the lookup is not scoped to the author *)
any_post(v, post_id) == post_id \in DOMAIN posts

(* delete_post: get_object_or_404(Post, pk=post_id, author=request.user) *)
owned_post(v, post_id) == post_id \in DOMAIN posts /\ posts[post_id].author = v

(* PostCreateView: LoginRequiredMixin, then CreateView; form_valid sets
   form.instance.author = request.user *)
PostCreateView ==
    \E v \in Viewers, m \in Methods : \E data \in PostDataOf(m) :
      LET req == [Request("post_create", v, m)
                    EXCEPT !.form = Submitted(data),
                           !.is_valid = PostForm_is_valid(data)]
      IN IF ~is_authenticated(v)
         THEN /\ resp' = redirect_to_login(req)
              /\ UNCHANGED <<blogVars, accountVars, pageVars>>
         ELSE IF m = "POST" /\ PostForm_is_valid(data)
         THEN /\ nextPost <= MaxPosts
              /\ posts' = posts @@ (nextPost :> form_valid(v, data))
              /\ nextPost' = nextPost + 1
              /\ resp' = [redirect(req, "profile", username(v)) EXCEPT !.post_id = nextPost]
              /\ UNCHANGED <<comments, nextComment, categories, now, accountVars, pageVars>>
         ELSE /\ resp' = render(req, "blog/create.html")
              /\ UNCHANGED <<blogVars, accountVars, pageVars>>

(* PostUpdateView: dispatch() looks the post up and compares its author with
   request.user before LoginRequiredMixin.dispatch runs; a saved form
   redirects to the post's get_absolute_url() *)
PostUpdateView ==
    \E v \in Viewers, m \in Methods, post_id \in PostIds : \E data \in UpdateDataOf(m) :
      LET req == [Request("post_update", v, m)
                    EXCEPT !.post_id = post_id,
                           !.form = Submitted(data),
                           !.is_valid = PostForm_is_valid(data)]
      IN IF post_id \notin DOMAIN posts
         THEN /\ resp' = Http404(req)
              /\ UNCHANGED <<blogVars, accountVars, pageVars>>
         ELSE IF not_author(v, post_id)
         THEN /\ resp' = redirect(req, "post_detail", post_id)
              /\ UNCHANGED <<blogVars, accountVars, pageVars>>
         ELSE IF ~is_authenticated(v)
         THEN /\ resp' = redirect_to_login(req)
              /\ UNCHANGED <<blogVars, accountVars, pageVars>>
         ELSE IF m = "POST" /\ PostForm_is_valid(data)
         THEN /\ posts' = [posts EXCEPT ![post_id] = PostForm_save(@, data)]
              /\ resp' = redirect(req, "get_absolute_url", post_id)
              /\ UNCHANGED <<comments, nextPost, nextComment, categories, now,
                             accountVars, pageVars>>
         ELSE /\ resp' = render(req, "blog/create.html")
              /\ UNCHANGED <<blogVars, accountVars, pageVars>>

(* delete_post(request, post_id): the lookup is scoped to author=request.user;
   deleting a post deletes its comments with it *)
delete_post ==
    \E v \in Viewers, m \in Methods, post_id \in PostIds :
      LET req == [Request("delete_post", v, m) EXCEPT !.post_id = post_id]
      IN IF ~is_authenticated(v)
         THEN /\ resp' = redirect_to_login(req)
              /\ UNCHANGED <<blogVars, accountVars, pageVars>>
         ELSE IF ~owned_post(v, post_id)
         THEN /\ resp' = Http404(req)
              /\ UNCHANGED <<blogVars, accountVars, pageVars>>
         ELSE IF m # "POST"
         THEN /\ resp' = render(req, "blog/create.html")
              /\ UNCHANGED <<blogVars, accountVars, pageVars>>
         ELSE /\ posts' = Restrict(posts, DOMAIN posts \ {post_id})
              /\ comments' = Restrict(comments, DOMAIN comments \ comments_of(post_id))
              /\ resp' = redirect(req, "profile", username(v))
              /\ UNCHANGED <<nextPost, nextComment, categories, now, accountVars, pageVars>>

----------------------------------------------------------------------------
(* Comment create / update / delete *)

(* add_comment(request, post_id): CommentForm(request.POST or None) *)
add_comment ==
    \E v \in Viewers, m \in Methods, post_id \in PostIds : \E data \in CommentDataOf(m) :
      LET req == [Request("add_comment", v, m)
                    EXCEPT !.post_id = post_id,
                           !.form = data,
                           !.is_valid = CommentForm_is_valid(data)]
      IN IF ~is_authenticated(v)
         THEN /\ resp' = redirect_to_login(req)
              /\ UNCHANGED <<blogVars, accountVars, pageVars>>
         ELSE IF post_id \notin DOMAIN posts
         THEN /\ resp' = Http404(req)
              /\ UNCHANGED <<blogVars, accountVars, pageVars>>
         ELSE IF CommentForm_is_valid(data)
         THEN /\ nextComment <= MaxComments
              /\ comments' = comments @@ (nextComment :> new_comment(v, post_id, data))
              /\ nextComment' = nextComment + 1
              /\ resp' = [redirect(req, "post_detail", post_id)
                            EXCEPT !.comment_id = nextComment]
              /\ UNCHANGED <<posts, nextPost, categories, now, accountVars, pageVars>>
         ELSE /\ resp' = [render(req, "blog/detail.html")
                            EXCEPT !.comments = comments_of(post_id)]
              /\ UNCHANGED <<blogVars, accountVars, pageVars>>

(* edit_comment(request, post_id, comment_id): the comment is looked up by
   comment_id alone *)
edit_comment ==
    \E v \in Viewers, m \in Methods, post_id \in PostIds, comment_id \in CommentIds :
     \E data \in CommentDataOf(m) :
      LET req == [Request("edit_comment", v, m)
                    EXCEPT !.post_id = post_id, !.comment_id = comment_id,
                           !.form = data,
                           !.is_valid = CommentForm_is_valid(data)]
      IN IF ~is_authenticated(v)
         THEN /\ resp' = redirect_to_login(req)
              /\ UNCHANGED <<blogVars, accountVars, pageVars>>
         ELSE IF comment_id \notin DOMAIN comments
         THEN /\ resp' = Http404(req)
              /\ UNCHANGED <<blogVars, accountVars, pageVars>>
         ELSE IF comments[comment_id].author # v
         THEN /\ resp' = HttpResponseForbidden(req)
              /\ UNCHANGED <<blogVars, accountVars, pageVars>>
         ELSE IF m = "POST" /\ CommentForm_is_valid(data)
         THEN /\ comments' = [comments EXCEPT ![comment_id] = CommentForm_save(@, data)]
              /\ resp' = redirect(req, "post_detail", post_id)
              /\ UNCHANGED <<posts, nextPost, nextComment, categories, now,
                             accountVars, pageVars>>
         ELSE /\ resp' = render(req, "blog/comment.html")
              /\ UNCHANGED <<blogVars, accountVars, pageVars>>

(* delete_comment(request, post_id, comment_id) *)
delete_comment ==
    \E v \in Viewers, m \in Methods, post_id \in PostIds, comment_id \in CommentIds :
      LET req == [Request("delete_comment", v, m)
                    EXCEPT !.post_id = post_id, !.comment_id = comment_id]
      IN IF ~is_authenticated(v)
         THEN /\ resp' = redirect_to_login(req)
              /\ UNCHANGED <<blogVars, accountVars, pageVars>>
         ELSE IF comment_id \notin DOMAIN comments
         THEN /\ resp' = Http404(req)
              /\ UNCHANGED <<blogVars, accountVars, pageVars>>
         ELSE IF comments[comment_id].author # v
         THEN /\ resp' = HttpResponseForbidden(req)
              /\ UNCHANGED <<blogVars, accountVars, pageVars>>
         ELSE IF m = "POST"
         THEN /\ comments' = Restrict(comments, DOMAIN comments \ {comment_id})
              /\ resp' = redirect(req, "post_detail", post_id)
              /\ UNCHANGED <<posts, nextPost, nextComment, categories, now,
                             accountVars, pageVars>>
         ELSE /\ resp' = render(req, "blog/comment.html")
              /\ UNCHANGED <<blogVars, accountVars, pageVars>>

(* timezone.now() advances *)
Tick ==
    /\ now < MaxTime
    /\ now' = now + 1
    /\ resp' = Request("tick", Anon, "")
    /\ UNCHANGED <<posts, comments, nextPost, nextComment, categories,
                   accountVars, pageVars>>

----------------------------------------------------------------------------
(* Accounts: password change and profile edit *)

(* User.set_password / check_password and User.get_session_auth_hash *)
make_password(raw) == <<"pbkdf2">> \o raw
get_session_auth_hash(u) == <<"hmac">> \o password[u]

(* The user a client's session cookie stands for: the session is dropped
   when its hash no longer matches the account's password *)
request_user(c) ==
    IF c # Anon /\ session[c] = get_session_auth_hash(c) THEN c ELSE Anon

AccountRequest(h, c, m) == [Request(h, request_user(c), m) EXCEPT !.client = c]

PasswordData ==
    { [NoForm EXCEPT !.bound = TRUE, !.password1 = p1, !.password2 = p2] :
        p1 \in Passwords, p2 \in Passwords }

(* PasswordChangeForm: two required CharFields, then clean() *)
PasswordChangeForm_is_valid(data) ==
    LET password1 == CharField(data.password1)
        password2 == CharField(data.password2)
    IN /\ data.bound
       /\ password1 # <<>>
       /\ password2 # <<>>
       /\ ~(password1 # <<>> /\ password2 # <<>> /\ password1 # password2)

(* the login view of django.contrib.auth.urls *)
login ==
    \E c \in Users, raw \in Passwords :
      LET req == [AccountRequest("login", c, "POST")
                    EXCEPT !.form = [NoForm EXCEPT !.bound = TRUE, !.password1 = raw]]
      IN IF raw # <<>> /\ make_password(raw) = password[c]
         THEN /\ session' = [session EXCEPT ![c] = get_session_auth_hash(c)]
              /\ resp' = redirect(req, "profile", c)
              /\ UNCHANGED <<blogVars, password, first_name, pageVars>>
         ELSE /\ resp' = render(req, "registration/login.html")
              /\ UNCHANGED <<blogVars, accountVars, pageVars>>

(* the logout view of django.contrib.auth.urls *)
logout ==
    \E c \in Users :
      /\ session' = [session EXCEPT ![c] = <<>>]
      /\ resp' = render(AccountRequest("logout", c, "POST"), "registration/logged_out.html")
      /\ UNCHANGED <<blogVars, password, first_name, pageVars>>

(* password_change_view(request, username) *)
password_change_view ==
    \E c \in Viewers, m \in Methods, data \in PasswordData :
      LET req == [AccountRequest("password_change", c, m)
                    EXCEPT !.form = IF m = "POST" THEN data ELSE NoForm,
                           !.is_valid = m = "POST" /\ PasswordChangeForm_is_valid(data)]
          user == request_user(c)
      IN IF ~is_authenticated(user)
         THEN /\ resp' = redirect_to_login(req)
              /\ UNCHANGED <<blogVars, accountVars, pageVars>>
         ELSE IF m = "POST" /\ PasswordChangeForm_is_valid(data)
         THEN /\ password' = [password EXCEPT
                                ![user] = make_password(CharField(data.password1))]
              /\ session' = [session EXCEPT ![user] = <<"hmac">> \o password'[user]]
              /\ resp' = redirect(req, "password_change_done", 0)
              /\ UNCHANGED <<blogVars, first_name, pageVars>>
         ELSE /\ resp' = render(req, "blog/password_change_form.html")
              /\ UNCHANGED <<blogVars, accountVars, pageVars>>

(* ProfileUpdateView: the object is request.user; ProfileForm excludes no
   field, so the submitted password column is saved as it is given *)
ProfileUpdateView ==
    \E c \in Viewers, m \in Methods, name \in Names :
      \E pwd \in {<<>>, <<"z">>} \cup {password[u] : u \in {c} \cap Users} :
        LET req == [AccountRequest("profile_edit", c, m)
                      EXCEPT !.form = IF m = "POST"
                                      THEN [NoForm EXCEPT !.bound = TRUE, !.text = name,
                                                          !.password1 = pwd]
                                      ELSE NoForm]
            user == request_user(c)
        IN IF ~is_authenticated(user)
           THEN /\ resp' = redirect_to_login(req)
                /\ UNCHANGED <<blogVars, accountVars, pageVars>>
           ELSE IF m = "POST" /\ CharField(pwd) # <<>>
           THEN /\ first_name' = [first_name EXCEPT ![user] = CharField(name)]
                /\ password' = [password EXCEPT ![user] = CharField(pwd)]
                /\ resp' = redirect(req, "profile", username(user))
                /\ UNCHANGED <<blogVars, session, pageVars>>
           ELSE /\ resp' = render(req, "blog/user.html")
                /\ UNCHANGED <<blogVars, accountVars, pageVars>>

----------------------------------------------------------------------------
(* Pagination of a listing of pgCount matching posts *)

(* Paginator(posts, LIMIT_POSTS).get_page(request.GET.get('page')) *)
paginate ==
    \E param \in PageParams :
      /\ pgParam' = param
      /\ pgPage' = get_page([i \in 1..pgCount |-> i], param)
      /\ UNCHANGED <<blogVars, accountVars, pgCount, resp>>

----------------------------------------------------------------------------
(* Specifications *)

EmptyTable == [x \in {} |-> 0]

Init ==
    /\ posts = EmptyTable
    /\ comments = EmptyTable
    /\ nextPost = 1
    /\ nextComment = 1
    /\ categories = [c \in Cats |-> c = 1]
    /\ now = 0
    /\ password = [u \in Users |-> make_password(<<"a">>)]
    /\ session = [u \in Users |-> <<>>]
    /\ first_name = [u \in Users |-> <<"n">>]
    /\ pgCount = 0
    /\ pgParam = Absent
    /\ pgPage = NoPage
    /\ resp = Request("", Anon, "")

(* Posts: their handlers, the pages that show them, and the clock *)
Next ==
    \/ index
    \/ category_posts
    \/ profile_view
    \/ PostDetailView
    \/ PostCreateView
    \/ PostUpdateView
    \/ delete_post
    \/ Tick

Spec == Init /\ [][Next]_vars

(* Every handler that writes posts or comments *)
NextStore ==
    \/ PostCreateView
    \/ PostUpdateView
    \/ delete_post
    \/ add_comment
    \/ edit_comment
    \/ delete_comment

SpecStore == Init /\ [][NextStore]_vars

NextAccount ==
    \/ login
    \/ logout
    \/ password_change_view
    \/ ProfileUpdateView

SpecAccount == Init /\ [][NextAccount]_vars

InitPage ==
    /\ posts = EmptyTable
    /\ comments = EmptyTable
    /\ nextPost = 1
    /\ nextComment = 1
    /\ categories = [c \in Cats |-> c = 1]
    /\ now = 0
    /\ password = [u \in Users |-> make_password(<<"a">>)]
    /\ session = [u \in Users |-> <<>>]
    /\ first_name = [u \in Users |-> <<"n">>]
    /\ pgCount \in 0..MaxCount
    /\ pgParam = Absent
    /\ pgPage = NoPage
    /\ resp = Request("", Anon, "")

NextPage == paginate

SpecPage == InitPage /\ [][NextPage]_vars

----------------------------------------------------------------------------
(* Properties *)

(* The public-visibility predicate of the data model *)
publicly_visible(p) ==
    /\ posts[p].is_published
    /\ categories[posts[p].category]
    /\ posts[p].pub_date <= now

Range(s) == { s[i] : i \in 1..Len(s) }

Listings == {"index", "category_posts", "profile_view"}

LoginRequired ==
    {"post_create", "post_update", "delete_post", "add_comment", "edit_comment",
     "delete_comment", "profile_edit", "password_change"}

ToLogin(r) == r.status = 302 /\ r.location = Location("login", 0)

(* C1: the detail page of an existing post answers a viewer who is not its
   author only when the post is published, its category is published and its
   pub_date is not in the future, and answers 'not found' otherwise; its
   author is always answered. *)
C1_DetailVisibility ==
    (resp.handler = "post_detail" /\ resp.post_id \in DOMAIN posts) =>
        IF resp.viewer = posts[resp.post_id].author
        THEN resp.status = 200
        ELSE IF publicly_visible(resp.post_id)
             THEN resp.status = 200
             ELSE resp.status = 404

(* C2: a page of the index, category or profile listing holds only publicly
   visible posts, except the profile of user u asked for by u, which holds
   all of u's posts. *)
C2_ListingVisibility ==
    (resp.handler \in Listings /\ resp.status = 200) =>
        IF resp.handler = "profile_view" /\ resp.viewer = resp.name
        THEN LET own == { p \in DOMAIN posts : posts[p].author = resp.name }
             IN Cardinality(own) <= LIMIT_POSTS => Range(resp.page.object_list) = own
        ELSE \A p \in Range(resp.page.object_list) :
                p \in DOMAIN posts /\ publicly_visible(p)

(* C2 witness: another viewer's look at the profile of a user who has a
   public post and a post dated in the future shows only the former. *)
C2_Witness ==
    /\ resp.handler = "profile_view"
    /\ resp.status = 200
    /\ resp.viewer # resp.name
    /\ Len(resp.page.object_list) = 1
    /\ \E p \in DOMAIN posts :
          /\ posts[p].author = resp.name
          /\ posts[p].is_published
          /\ categories[posts[p].category]
          /\ posts[p].pub_date > now

(* C3: a delete request for a post or comment by anyone but its author
   changes nothing in the store; an authenticated non-author is answered
   'not found' for a post and 'forbidden' for a comment. *)
C3_DeleteByNonAuthor ==
    [][ /\ ( /\ resp'.handler = "delete_post"
             /\ resp'.post_id \in DOMAIN posts
             /\ posts[resp'.post_id].author # resp'.viewer )
           => /\ posts' = posts
              /\ comments' = comments
              /\ is_authenticated(resp'.viewer) => resp'.status = 404
        /\ ( /\ resp'.handler = "delete_comment"
             /\ resp'.comment_id \in DOMAIN comments
             /\ comments[resp'.comment_id].author # resp'.viewer )
           => /\ posts' = posts
              /\ comments' = comments
              /\ is_authenticated(resp'.viewer) => resp'.status = 403
      ]_vars

(* C3 witness: a confirming delete of a post by an authenticated viewer who
   is not its author was answered 'not found'. *)
C3_Witness ==
    /\ resp.handler = "delete_post"
    /\ resp.method = "POST"
    /\ is_authenticated(resp.viewer)
    /\ resp.post_id \in DOMAIN posts
    /\ posts[resp.post_id].author # resp.viewer
    /\ resp.status = 404

(* C4: an update request by an authenticated viewer who is not the author
   changes nothing; for a post it is answered by a redirect to the post's
   detail page, for a comment by 'forbidden'.  An update handler changes a
   record only on a valid POST by its author. *)
C4_UpdateByNonAuthor ==
    [][ /\ ( /\ resp'.handler = "post_update"
             /\ resp'.post_id \in DOMAIN posts
             /\ is_authenticated(resp'.viewer)
             /\ posts[resp'.post_id].author # resp'.viewer )
           => /\ posts' = posts
              /\ comments' = comments
              /\ resp'.status = 302
              /\ resp'.location = Location("post_detail", resp'.post_id)
        /\ ( /\ resp'.handler = "edit_comment"
             /\ resp'.comment_id \in DOMAIN comments
             /\ is_authenticated(resp'.viewer)
             /\ comments[resp'.comment_id].author # resp'.viewer )
           => /\ posts' = posts
              /\ comments' = comments
              /\ resp'.status = 403
        /\ (resp'.handler = "post_update" /\ <<posts, comments>>' # <<posts, comments>>)
           => /\ resp'.viewer = posts[resp'.post_id].author
              /\ resp'.method = "POST"
              /\ resp'.is_valid
        /\ (resp'.handler = "edit_comment" /\ <<posts, comments>>' # <<posts, comments>>)
           => /\ resp'.viewer = comments[resp'.comment_id].author
              /\ resp'.method = "POST"
              /\ resp'.is_valid
      ]_vars

(* C4 witness: a valid POST to the update page of a post by an authenticated
   viewer who is not its author was redirected to the post's detail page. *)
C4_Witness ==
    /\ resp.handler = "post_update"
    /\ resp.method = "POST"
    /\ resp.is_valid
    /\ is_authenticated(resp.viewer)
    /\ resp.post_id \in DOMAIN posts
    /\ posts[resp.post_id].author # resp.viewer
    /\ resp.location = Location("post_detail", resp.post_id)

(* C5: a password-change submission whose two fields differ leaves the
   stored password and the session as they were, keeps the viewer logged in
   and re-renders the form. *)
C5_PasswordMismatch ==
    [][ ( /\ resp'.handler = "password_change"
          /\ is_authenticated(resp'.viewer)
          /\ resp'.method = "POST"
          /\ resp'.form.password1 # resp'.form.password2 )
        => /\ password' = password
           /\ session' = session
           /\ first_name' = first_name
           /\ resp'.status = 200
           /\ resp'.template = "blog/password_change_form.html"
      ]_vars

(* C6: a post appears in the store only through the create handler, one per
   valid submission of an authenticated viewer, with that viewer as its
   author whatever author the submitted data names, and with a redirect to
   the viewer's profile; an anonymous request creates nothing. *)
C6_CreateSetsAuthor ==
    [][ /\ (DOMAIN posts' # DOMAIN posts /\ resp'.handler # "delete_post")
           => /\ resp'.handler = "post_create"
              /\ DOMAIN posts' = DOMAIN posts \cup {resp'.post_id}
              /\ resp'.post_id \notin DOMAIN posts
              /\ is_authenticated(resp'.viewer)
              /\ posts'[resp'.post_id].author = resp'.viewer
              /\ \A p \in DOMAIN posts : posts'[p] = posts[p]
        /\ ( /\ resp'.handler = "post_create"
             /\ is_authenticated(resp'.viewer)
             /\ resp'.method = "POST"
             /\ resp'.is_valid )
           => /\ Cardinality(DOMAIN posts' \ DOMAIN posts) = 1
              /\ resp'.status = 302
              /\ resp'.location = Location("profile", username(resp'.viewer))
        /\ (resp'.handler = "post_create" /\ ~is_authenticated(resp'.viewer))
           => posts' = posts
      ]_vars

(* C6 witness: user 2 submitted a valid post naming user 1 as its author and
   the stored post has user 2 as its author. *)
C6_Witness ==
    /\ resp.handler = "post_create"
    /\ resp.status = 302
    /\ resp.viewer = 2
    /\ resp.form.author = 1
    /\ resp.post_id \in DOMAIN posts
    /\ posts[resp.post_id].author = 2

(* The page number a parameter asks for, when it is an integer *)
asked == IntValue(pgParam.text)
is_number == pgParam.present /\ IsInteger(pgParam.text)
last_page == num_pages(pgCount)
paginated == pgPage # NoPage

(* C7 as claimed: every parameter gives a valid page of at most 10 posts; a
   number below 1 gives the first page and a number above the last page gives
   the last page. *)
C7_ClampToNearest ==
    paginated =>
        /\ Len(pgPage.object_list) <= LIMIT_POSTS
        /\ pgPage.number \in 1..last_page
        /\ (is_number /\ asked < 1) => pgPage.number = 1
        /\ (is_number /\ asked > last_page) => pgPage.number = last_page

(* C7 as the code has it: every parameter gives a valid page of at most 10
   posts, holding the posts of that page; an absent or non-numeric parameter
   gives the first page, a number in range gives that page, and a number
   below 1 or above the last page gives the last page. *)
C7_ClampToLast ==
    paginated =>
        /\ Len(pgPage.object_list) <= LIMIT_POSTS
        /\ pgPage.number \in 1..last_page
        /\ pgPage.object_list =
             [i \in 1..Min(LIMIT_POSTS, pgCount - (pgPage.number - 1) * LIMIT_POSTS)
                |-> (pgPage.number - 1) * LIMIT_POSTS + i]
        /\ ~is_number => pgPage.number = 1
        /\ (is_number /\ asked \in 1..last_page) => pgPage.number = asked
        /\ (is_number /\ asked < 1) => pgPage.number = last_page
        /\ (is_number /\ asked > last_page) => pgPage.number = last_page

(* C7 witness: page=0 of a listing of more than 10 posts gave the last page,
   which is not the first. *)
C7_Witness ==
    /\ paginated
    /\ pgCount > LIMIT_POSTS
    /\ pgParam = Given(<<"0">>)
    /\ pgPage.number = last_page
    /\ pgPage.number > 1

(* C8: a valid POST to the comment handler of an existing post by an
   authenticated viewer adds exactly one comment, by that viewer on that post,
   changes nothing else and redirects to the post's detail page; for a missing
   post the answer is 'not found' and nothing is stored; an invalid form
   stores nothing and re-renders the detail page with the post's comments. *)
C8_AddComment ==
    [][ (resp'.handler = "add_comment" /\ is_authenticated(resp'.viewer)) =>
          IF resp'.post_id \notin DOMAIN posts
          THEN resp'.status = 404 /\ posts' = posts /\ comments' = comments
          ELSE IF resp'.method = "POST" /\ resp'.is_valid
          THEN /\ posts' = posts
               /\ resp'.comment_id \notin DOMAIN comments
               /\ DOMAIN comments' = DOMAIN comments \cup {resp'.comment_id}
               /\ \A c \in DOMAIN comments : comments'[c] = comments[c]
               /\ comments'[resp'.comment_id].author = resp'.viewer
               /\ comments'[resp'.comment_id].post = resp'.post_id
               /\ resp'.status = 302
               /\ resp'.location = Location("post_detail", resp'.post_id)
          ELSE /\ posts' = posts
               /\ comments' = comments
               /\ resp'.status = 200
               /\ resp'.template = "blog/detail.html"
               /\ resp'.comments = { c \in DOMAIN comments :
                                       comments[c].post = resp'.post_id }
      ]_vars

(* C8 witness: user 2 commented on a post of user 1 and the stored comment
   carries user 2 and that post. *)
C8_Witness ==
    /\ resp.handler = "add_comment"
    /\ resp.status = 302
    /\ resp.viewer = 2
    /\ resp.comment_id \in DOMAIN comments
    /\ comments[resp.comment_id].author = 2
    /\ comments[resp.comment_id].post = resp.post_id
    /\ resp.post_id \in DOMAIN posts
    /\ posts[resp.post_id].author = 1

(* C9: every request of an anonymous viewer to a handler that requires a
   viewer, whatever its method and target, is answered by the redirect to the
   login page and leaves the store unchanged. *)
C9_LoginGate ==
    [][ (resp'.handler \in LoginRequired /\ ~is_authenticated(resp'.viewer))
        => /\ ToLogin(resp')
           /\ posts' = posts
           /\ comments' = comments
           /\ accountVars' = accountVars
      ]_vars

(* C10: a post keeps its author, and a comment its author and its post, for
   as long as it is in the store. *)
C10_OwnershipImmutable ==
    [][ /\ \A p \in DOMAIN posts \cap DOMAIN posts' :
             posts'[p].author = posts[p].author
        /\ \A c \in DOMAIN comments \cap DOMAIN comments' :
             /\ comments'[c].author = comments[c].author
             /\ comments'[c].post = comments[c].post
        /\ nextPost' >= nextPost
        /\ nextComment' >= nextComment
        /\ \A p \in DOMAIN posts' : p < nextPost'
        /\ \A c \in DOMAIN comments' : c < nextComment'
      ]_vars

(* C10 witness: the author of a comment edited it through a URL that names
   another post than the comment's, and the comment is still on its post. *)
C10_Witness ==
    /\ resp.handler = "edit_comment"
    /\ resp.status = 302
    /\ resp.comment_id \in DOMAIN comments
    /\ comments[resp.comment_id].author = resp.viewer
    /\ comments[resp.comment_id].post # resp.post_id
    /\ resp.post_id \in DOMAIN posts

====
